---------------------------- MODULE Spec2Model ----------------------------
(***************************************************************************)
(* Model of src/main.c of groupscholar-retention-watch: CSV rows are       *)
(* scored (compute_risk), ranked (qsort with compare_risk_desc), exported, *)
(* folded into cohort summaries, the cohort focus list is ranked, and the  *)
(* action queue is rendered as text or JSON.                               *)
(*                                                                         *)
(* Numbers.  The program computes in C doubles.  The model computes in     *)
(* exact fixed point: every signal is held in tenths of its unit           *)
(* (gpa 3.6 is 36, 12.5 days are 125) and every score, term and threshold  *)
(* in thousandths of a risk point (75.0 is 75000).  open_flags is a plain  *)
(* int.  The inputs enumerated below are ones on which every comparison    *)
(* the program makes on its doubles has the outcome it has here.           *)
(*                                                                         *)
(* Left out: the -summary file and the "records" array of -json-full       *)
(* (both print state that is modelled, and change none), the failures of   *)
(* fopen, and the -drivers column of a run, whose text is modelled for one *)
(* record at a time under SpecDrivers.                                     *)
(***************************************************************************)
EXTENDS Integers, Sequences, FiniteSets

VARIABLES
  pc,            \* position in main
  limit,         \* -limit N            (main.c:195)
  min_risk,      \* -min-risk SCORE     (main.c:196), thousandths
  cohort_filter, \* -cohort NAME        (main.c:200), NoCohortFilter for NULL
  export_path,   \* -export PATH given  (main.c:201)
  json,          \* -json               (main.c:197)
  line_no,       \* lines read so far   (main.c:245)
  skipped,       \* rows with fewer than 10 fields (main.c:240)
  wellformed,    \* rows with at least 10 fields read so far (history)
  scholars,      \* the Scholar array, scholars[1..count] (main.c:237)
  loaded,        \* the Scholar array as it was when loading ended
  exported,      \* rows written to the export file, in order
  idx,           \* loop index i of the aggregation loop (main.c:349)
  tiers,         \* the global counters high, medium, low (main.c:340)
  total_risk,    \* main.c:343
  cohorts,       \* the CohortSummary array (main.c:346)
  focus,         \* the focus array of pointers into cohorts (main.c:366)
  focus_out,     \* the cohort focus entries printed
  queue,         \* the action queue entries printed
  message,       \* the condition message printed, "" for none
  exit_code,     \* main's return value, -1 while running
  rec,           \* the Scholar handed to format_drivers
  driver_text    \* what format_drivers wrote to its buffer

vars == <<pc, limit, min_risk, cohort_filter, export_path, json, line_no,
          skipped, wellformed, scholars, loaded, exported, idx, tiers, total_risk,
          cohorts, focus, focus_out, queue, message, exit_code, rec,
          driver_text>>

-----------------------------------------------------------------------------
(* Bounds of the model *)

\* lines of the CSV file read in a run of Spec
MaxLines == 3
\* lines of the CSV file read in a run of SpecFocus
MaxFocusLines == 4

(* Program constants, scaled as described above *)

\* main.c:68   score += days_inactive * 0.6
W_INACTIVITY == 60
\* main.c:69   score += last_contact_days * 0.4
W_CONTACT == 40
\* main.c:70   score += attendance_gap * 0.35
W_ATTENDANCE == 35
\* main.c:71   score += engagement_gap * 0.25
W_ENGAGEMENT == 25
\* main.c:72   score += gpa_gap * 12.5
W_GPA == 1250
\* main.c:73   score += survey_gap * 0.15
W_SURVEY == 15
\* main.c:74   score += open_flags * 6.0
W_FLAGS == 6000
\* main.c:62   4.0, in tenths
GPA_MAX == 40
\* main.c:63   100.0, in tenths
RATE_MAX == 1000
\* main.c:75   100.0, in thousandths
SCORE_MAX == 100000
\* main.c:103  0.1, in thousandths
DRIVER_MIN == 100
\* main.c:131  75.0, in thousandths
TIER_HIGH == 75000
\* main.c:132  50.0, in thousandths
TIER_MEDIUM == 50000
\* main.c:119  at most 3 drivers are written
DRIVER_SHOWN == 3
\* main.c:412  at most 3 focus cohorts are printed
FOCUS_SHOWN == 3
\* main.c:195  int limit = 10
DEFAULT_LIMIT == 10

NoCohortFilter == ""

-----------------------------------------------------------------------------
(* Pure functions *)

\* main.c:45-49
clamp(v, min, max) == IF v < min THEN min ELSE IF v > max THEN max ELSE v

gpa_gap(s) == clamp(GPA_MAX - s.gpa, 0, GPA_MAX)
attendance_gap(s) == clamp(RATE_MAX - s.attendance_rate, 0, RATE_MAX)
engagement_gap(s) == clamp(RATE_MAX - s.engagement_score, 0, RATE_MAX)
survey_gap(s) == clamp(RATE_MAX - s.survey_score, 0, RATE_MAX)

\* main.c:67-74, the unclamped sum
raw_risk(s) ==
  s.days_inactive * W_INACTIVITY
  + s.last_contact_days * W_CONTACT
  + attendance_gap(s) * W_ATTENDANCE
  + engagement_gap(s) * W_ENGAGEMENT
  + gpa_gap(s) * W_GPA
  + survey_gap(s) * W_SURVEY
  + s.open_flags * W_FLAGS

compute_risk_unclamped(s) == raw_risk(s)

\* main.c:61-76
compute_risk(s) == clamp(raw_risk(s), 0, SCORE_MAX)

risk_tier_strict(score) ==
  IF score > TIER_HIGH THEN "high"
  ELSE IF score > TIER_MEDIUM THEN "medium"
  ELSE "low"

\* main.c:130-134
risk_tier(score) ==
  IF score >= TIER_HIGH THEN "high"
  ELSE IF score >= TIER_MEDIUM THEN "medium"
  ELSE "low"

\* main.c:145-151
compare_risk_desc(sa, sb) ==
  IF sa.risk_score < sb.risk_score THEN 1
  ELSE IF sa.risk_score > sb.risk_score THEN -1
  ELSE 0

\* main.c:153-161.  avg_a < avg_b with avg = avg_risk / total and total >= 1
\* is compared exactly by cross-multiplication.
compare_cohort_avg_desc(ca, cb) ==
  IF ca.avg_risk * cb.total < cb.avg_risk * ca.total THEN 1
  ELSE IF ca.avg_risk * cb.total > cb.avg_risk * ca.total THEN -1
  ELSE 0

\* main.c:78-84
compare_driver_desc(da, db) ==
  IF da.value < db.value THEN 1
  ELSE IF da.value > db.value THEN -1
  ELSE 0

(***************************************************************************)
(* qsort (main.c:116, 303, 373).  The C library sorts by the comparison    *)
(* function and leaves the order of elements that compare equal            *)
(* unspecified, so the result is any arrangement of the array in which no  *)
(* element precedes one it compares greater than.  After(S) is the set of  *)
(* pairs <<x, y>> of positions of the array with compare(x, y) > 0.        *)
(* QsortOrders gives every such arrangement as a sequence of positions.    *)
(***************************************************************************)
RECURSIVE QsortOrders(_, _)
QsortOrders(S, After) ==
  IF S = {} THEN {<<>>}
  ELSE UNION { { <<x>> \o r : r \in QsortOrders(S \ {x}, After) } :
               x \in { y \in S : \A z \in S : <<y, z>> \notin After } }

Apply(seq, order) == [k \in 1..Len(order) |-> seq[order[k]]]

(***************************************************************************)
(* format_drivers (main.c:86-128).  A Driver is [label, value].  The text  *)
(* written to the buffer is modelled by its content: either the word       *)
(* "stable" or the Driver entries written, in the order written (the       *)
(* "%s %.1f" rendering of one entry is not modelled).                      *)
(***************************************************************************)

\* main.c:95-101, the seven terms in the order of the if statements
driver_terms(s) ==
  << [label |-> "inactivity",  value |-> s.days_inactive * W_INACTIVITY],
     [label |-> "contact gap", value |-> s.last_contact_days * W_CONTACT],
     [label |-> "attendance",  value |-> attendance_gap(s) * W_ATTENDANCE],
     [label |-> "engagement",  value |-> engagement_gap(s) * W_ENGAGEMENT],
     [label |-> "gpa",         value |-> gpa_gap(s) * W_GPA],
     [label |-> "survey",      value |-> survey_gap(s) * W_SURVEY],
     [label |-> "open flags",  value |-> s.open_flags * W_FLAGS] >>

collect_drivers_nonneg(s) ==
  LET Keep(d) == d.value >= 0 IN SelectSeq(driver_terms(s), Keep)

\* main.c:103-109, the drivers array after the seven if statements
collect_drivers(s) ==
  LET Keep(d) == d.value > DRIVER_MIN IN SelectSeq(driver_terms(s), Keep)

\* main.c:119  int max = count < 3 ? count : 3
Prefix(seq, n) == SubSeq(seq, 1, IF Len(seq) < n THEN Len(seq) ELSE n)

StableText == [stable |-> TRUE, chunks |-> <<>>]
NoText == [stable |-> FALSE, chunks |-> <<>>]

\* main.c:86-128: every text the call can write
format_drivers(s) ==
  LET drivers == collect_drivers(s)
      count == Len(drivers)
      After == { p \in (1..count) \X (1..count) :
                   compare_driver_desc(drivers[p[1]], drivers[p[2]]) > 0 }
  IN  IF count = 0 THEN { StableText }
      ELSE { [stable |-> FALSE,
              chunks |-> Prefix(Apply(drivers, o), DRIVER_SHOWN)] :
             o \in QsortOrders(1..count, After) }

-----------------------------------------------------------------------------
(* One record scored and explained: main.c:268-279, then main.c:321-323 *)

NoCohort == "-"

RecordInputs ==
  [ id : {1}, cohort : {NoCohort},
    days_inactive : {-100, 0, 1, 100},
    attendance_rate : {800, 1000, 1500},
    engagement_score : {760, 1000},
    gpa : {20, 40},
    last_contact_days : {0, 150},
    survey_score : {600, 1000},
    open_flags : {-1, 0, 1},
    risk_score : {0} ]

Idle ==
  /\ limit = DEFAULT_LIMIT /\ min_risk = 0 /\ cohort_filter = NoCohortFilter
  /\ export_path = FALSE /\ json = FALSE /\ line_no = 0 /\ skipped = 0
  /\ wellformed = 0
  /\ scholars = <<>> /\ loaded = <<>> /\ exported = <<>> /\ idx = 0
  /\ tiers = [high |-> 0, medium |-> 0, low |-> 0] /\ total_risk = 0
  /\ cohorts = <<>> /\ focus = <<>> /\ focus_out = <<>> /\ queue = <<>>
  /\ message = "" /\ exit_code = -1

InitDrivers ==
  /\ pc = "parsed"
  /\ rec \in RecordInputs
  /\ driver_text = NoText
  /\ Idle

pipeline == <<limit, min_risk, cohort_filter, export_path, json, line_no,
              skipped, wellformed, scholars, loaded, exported, idx, tiers, total_risk,
              cohorts, focus, focus_out, queue, message, exit_code>>

\* main.c:279  s.risk_score = compute_risk(&s)
ScoreRecord ==
  /\ pc = "parsed"
  /\ rec' = [rec EXCEPT !.risk_score = compute_risk(rec)]
  /\ pc' = "scored"
  /\ UNCHANGED <<driver_text, pipeline>>

\* main.c:323  format_drivers(s, driver_text, sizeof(driver_text))
ExplainRecord ==
  /\ pc = "scored"
  /\ driver_text' \in format_drivers(rec)
  /\ pc' = "explained"
  /\ UNCHANGED <<rec, pipeline>>

NextDrivers == ScoreRecord \/ ExplainRecord

SpecDrivers == InitDrivers /\ [][NextDrivers]_vars

-----------------------------------------------------------------------------
(* The run of main over a CSV file *)

NoRecordsMessage == "No records loaded."
NoneMetMessage == "No scholars met the minimum risk threshold."

NoScholar ==
  [ id |-> 0, cohort |-> NoCohort, days_inactive |-> 0, attendance_rate |-> 0,
    engagement_score |-> 0, gpa |-> 0, last_contact_days |-> 0,
    survey_score |-> 0, open_flags |-> 0, risk_score |-> 0 ]

(***************************************************************************)
(* The lines a file may hold.  A line is the header line, a row with fewer *)
(* than 10 fields, or a row whose fields parse to the signals given.       *)
(* Signals in tenths: Perfect is attendance 100, engagement 100, gpa 4.0,  *)
(* survey 100 and nothing else.                                            *)
(***************************************************************************)
Perfect ==
  [ days_inactive |-> 0, attendance_rate |-> 1000, engagement_score |-> 1000,
    gpa |-> 40, last_contact_days |-> 0, survey_score |-> 1000,
    open_flags |-> 0 ]

\* raw sum -6.0: a negative signal
NegativeSignals == [Perfect EXCEPT !.days_inactive = -100]
\* risk exactly 50.0
MediumSignals == [Perfect EXCEPT !.gpa = 0]
\* risk exactly 75.0
HighSignals == [Perfect EXCEPT !.days_inactive = 1250]
\* raw sum 155.0, attendance below its range
OverSignals == [Perfect EXCEPT !.days_inactive = 2000, !.attendance_rate = -500]

RecordLines(names, signals) ==
  { [kind |-> "record", cohort |-> c, signals |-> g] : c \in names, g \in signals }

HeaderLine == [kind |-> "header", cohort |-> NoCohort, signals |-> Perfect]
ShortLine == [kind |-> "short", cohort |-> NoCohort, signals |-> Perfect]

\* files read under every combination of options
Lines ==
  RecordLines({"A", "B"}, {MediumSignals, HighSignals})
  \cup {HeaderLine, ShortLine}

\* records of both cohorts covering every tier and both clamps of compute_risk
ScoreLines ==
  RecordLines({"A", "B"},
              {NegativeSignals, MediumSignals, HighSignals, OverSignals})

\* records of four cohorts
FocusLines ==
  RecordLines({"A", "B", "C", "D"}, {MediumSignals, HighSignals})

\* main.c:268-279: the Scholar built from the fields of line number n
parse_scholar(line, n) ==
  LET s == [ id |-> n, cohort |-> line.cohort,
             days_inactive |-> line.signals.days_inactive,
             attendance_rate |-> line.signals.attendance_rate,
             engagement_score |-> line.signals.engagement_score,
             gpa |-> line.signals.gpa,
             last_contact_days |-> line.signals.last_contact_days,
             survey_score |-> line.signals.survey_score,
             open_flags |-> line.signals.open_flags,
             risk_score |-> 0 ]
  IN  [s EXCEPT !.risk_score = compute_risk(s)]

Options ==
  /\ limit \in {-1, 1, DEFAULT_LIMIT}
  /\ min_risk \in {0, TIER_HIGH}
  /\ cohort_filter \in {NoCohortFilter, "A"}
  /\ export_path \in BOOLEAN
  /\ json \in BOOLEAN

Started ==
  /\ pc = "read"
  /\ line_no = 0 /\ skipped = 0 /\ wellformed = 0
  /\ scholars = <<>> /\ loaded = <<>> /\ exported = <<>> /\ idx = 0
  /\ tiers = [high |-> 0, medium |-> 0, low |-> 0] /\ total_risk = 0
  /\ cohorts = <<>> /\ focus = <<>> /\ focus_out = <<>> /\ queue = <<>>
  /\ message = "" /\ exit_code = -1
  /\ rec = NoScholar /\ driver_text = NoText

Init == Options /\ Started

options == <<limit, min_risk, cohort_filter, export_path, json>>
single == <<rec, driver_text>>

\* main.c:247-293, one turn of the getline loop
ReadLine(from, max) ==
  /\ pc = "read"
  /\ line_no < max
  /\ \E line \in from :
       /\ line.kind = "header" => line_no = 0
       /\ line_no' = line_no + 1
       /\ IF line.kind = "header"
            THEN UNCHANGED <<skipped, wellformed, scholars>>
          ELSE IF line.kind = "short"
            THEN /\ skipped' = skipped + 1
                 /\ UNCHANGED <<wellformed, scholars>>
          ELSE LET s == parse_scholar(line, line_no + 1) IN
                 /\ wellformed' = wellformed + 1
                 /\ skipped' = skipped
                 /\ IF cohort_filter # NoCohortFilter /\ s.cohort # cohort_filter
                      THEN scholars' = scholars
                      ELSE scholars' = Append(scholars, s)
  /\ UNCHANGED <<pc, options, loaded, exported, idx, tiers, total_risk,
                 cohorts, focus, focus_out, queue, message, exit_code, single>>

\* main.c:298-301
NoRecords ==
  /\ pc = "read"
  /\ Len(scholars) = 0
  /\ message' = NoRecordsMessage
  /\ exit_code' = 1
  /\ pc' = "done"
  /\ UNCHANGED <<options, line_no, skipped, wellformed, scholars, loaded,
                 exported, idx, tiers, total_risk, cohorts, focus, focus_out,
                 queue, single>>

\* main.c:303: every array qsort may leave
qsort_scholars(arr) ==
  LET n == Len(arr)
      After == { p \in (1..n) \X (1..n) : compare_risk_desc(arr[p[1]], arr[p[2]]) > 0 }
  IN  { Apply(arr, o) : o \in QsortOrders(1..n, After) }

\* main.c:303
Rank ==
  /\ pc = "read"
  /\ Len(scholars) > 0
  /\ loaded' = scholars
  /\ scholars' \in qsort_scholars(scholars)
  /\ pc' = "export"
  /\ UNCHANGED <<options, line_no, skipped, wellformed, exported, idx, tiers,
                 total_risk, cohorts, focus, focus_out, queue, message,
                 exit_code, single>>

export_rows_strict(arr, threshold) ==
  LET Keep(s) == ~(s.risk_score <= threshold) IN SelectSeq(arr, Keep)

\* main.c:316-336: the rows the export loop writes
export_rows(arr, threshold) ==
  LET Keep(s) == ~(s.risk_score < threshold) IN SelectSeq(arr, Keep)

\* main.c:305-338
Export ==
  /\ pc = "export"
  /\ exported' = IF export_path THEN export_rows(scholars, min_risk) ELSE exported
  /\ pc' = "aggregate"
  /\ UNCHANGED <<options, line_no, skipped, wellformed, scholars, loaded, idx,
                 tiers, total_risk, cohorts, focus, focus_out, queue, message,
                 exit_code, single>>

(***************************************************************************)
(* The aggregation loop (main.c:340-362).  A CohortSummary is              *)
(* [name, total, high, medium, low, avg_risk]; avg_risk holds the sum of   *)
(* the risk scores folded in, as in the program.                           *)
(***************************************************************************)

\* main.c:164-168: the position of the summary named name, 0 if there is none
find_cohort(cs, name) ==
  IF \E k \in 1..Len(cs) : cs[k].name = name
    THEN CHOOSE k \in 1..Len(cs) :
           /\ cs[k].name = name
           /\ \A j \in 1..(k - 1) : cs[j].name # name
    ELSE 0

\* main.c:163-179: the array after the call, and the position returned
find_or_create_cohort(cs, name) ==
  IF find_cohort(cs, name) # 0
    THEN [cohorts |-> cs, at |-> find_cohort(cs, name)]
    ELSE [cohorts |-> Append(cs, [name |-> name, total |-> 0, high |-> 0,
                                  medium |-> 0, low |-> 0, avg_risk |-> 0]),
          at |-> Len(cs) + 1]

\* main.c:352-354 and 359-361: the counter named by the tier goes up by one
count_tier(c, tier) ==
  IF tier = "high" THEN [c EXCEPT !.high = @ + 1]
  ELSE IF tier = "medium" THEN [c EXCEPT !.medium = @ + 1]
  ELSE [c EXCEPT !.low = @ + 1]

fold_scholar_overwrite(agg, s) ==
  LET tier == risk_tier(s.risk_score)
      found == find_or_create_cohort(agg.cohorts, s.cohort)
      cs == found.cohorts[found.at]
  IN  [ total_risk |-> s.risk_score,
        tiers |-> count_tier(agg.tiers, tier),
        cohorts |-> [found.cohorts EXCEPT ![found.at] =
                       count_tier([cs EXCEPT !.total = @ + 1,
                                             !.avg_risk = s.risk_score], tier)] ]

\* main.c:350-361, the body of the loop for one scholar
fold_scholar(agg, s) ==
  LET tier == risk_tier(s.risk_score)
      found == find_or_create_cohort(agg.cohorts, s.cohort)
      cs == found.cohorts[found.at]
  IN  [ total_risk |-> agg.total_risk + s.risk_score,
        tiers |-> count_tier(agg.tiers, tier),
        cohorts |-> [found.cohorts EXCEPT ![found.at] =
                       count_tier([cs EXCEPT !.total = @ + 1,
                                             !.avg_risk = @ + s.risk_score], tier)] ]

\* main.c:349-362, one turn of the loop
Aggregate ==
  /\ pc = "aggregate"
  /\ idx < Len(scholars)
  /\ LET after == fold_scholar([total_risk |-> total_risk, tiers |-> tiers,
                                cohorts |-> cohorts], scholars[idx + 1])
     IN  /\ total_risk' = after.total_risk
         /\ tiers' = after.tiers
         /\ cohorts' = after.cohorts
  /\ idx' = idx + 1
  /\ UNCHANGED <<pc, options, line_no, skipped, wellformed, scholars, loaded,
                 exported, focus, focus_out, queue, message, exit_code, single>>

\* main.c:373: every focus array qsort may leave; an entry is a position in cs
qsort_focus(cs) ==
  LET n == Len(cs)
      After == { p \in (1..n) \X (1..n) :
                   compare_cohort_avg_desc(cs[p[1]], cs[p[2]]) > 0 }
  IN  QsortOrders(1..n, After)

\* main.c:364-374, when the aggregation loop has ended
RankCohorts ==
  /\ pc = "aggregate"
  /\ idx = Len(scholars)
  /\ focus' \in qsort_focus(cohorts)
  /\ pc' = "render"
  /\ UNCHANGED <<options, line_no, skipped, wellformed, scholars, loaded,
                 exported, idx, tiers, total_risk, cohorts, focus_out, queue,
                 message, exit_code, single>>

\* main.c:412-419 and 484-490: the summaries of the focus entries printed
focus_rows(cs, f) == Prefix(Apply(cs, f), FOCUS_SHOWN)

RECURSIVE json_queue_loop(_, _, _, _, _)
json_queue_loop(arr, i, printed, lim, threshold) ==
  IF i <= Len(arr) /\ Len(printed) < lim
    THEN IF arr[i].risk_score < threshold
           THEN json_queue_loop(arr, i + 1, printed, lim, threshold)
           ELSE json_queue_loop(arr, i + 1, Append(printed, arr[i]), lim, threshold)
    ELSE printed

\* main.c:422-441: the entries of "action_queue"
json_action_queue(arr, lim, threshold) ==
  json_queue_loop(arr, 1, <<>>, lim, threshold)

RECURSIVE text_queue_loop(_, _, _, _, _)
text_queue_loop(arr, i, printed, lim, threshold) ==
  IF i <= Len(arr) /\ Len(printed) < lim
    THEN IF arr[i].risk_score < threshold
           THEN text_queue_loop(arr, i + 1, printed, lim, threshold)
           ELSE text_queue_loop(arr, i + 1, Append(printed, arr[i]), lim, threshold)
    ELSE printed

text_action_queue_off_by_one(arr, lim, threshold) ==
  text_queue_loop(arr, 1, <<>>, lim + 1, threshold)

\* main.c:494-511: the lines of the action queue
text_action_queue(arr, lim, threshold) ==
  text_queue_loop(arr, 1, <<>>, lim, threshold)

\* main.c:392-468, then 517-529
RenderJson ==
  /\ pc = "render"
  /\ json
  /\ focus_out' = focus_rows(cohorts, focus)
  /\ queue' = json_action_queue(scholars, limit, min_risk)
  /\ message' = ""
  /\ exit_code' = 0
  /\ pc' = "done"
  /\ UNCHANGED <<options, line_no, skipped, wellformed, scholars, loaded,
                 exported, idx, tiers, total_risk, cohorts, focus, single>>

\* main.c:469-515, then 517-529
RenderText ==
  /\ pc = "render"
  /\ ~json
  /\ focus_out' = focus_rows(cohorts, focus)
  /\ queue' = text_action_queue(scholars, limit, min_risk)
  /\ message' = IF Len(queue') = 0 THEN NoneMetMessage ELSE ""
  /\ exit_code' = 0
  /\ pc' = "done"
  /\ UNCHANGED <<options, line_no, skipped, wellformed, scholars, loaded,
                 exported, idx, tiers, total_risk, cohorts, focus, single>>

Next ==
  \/ ReadLine(Lines, MaxLines)
  \/ NoRecords
  \/ Rank
  \/ Export
  \/ Aggregate
  \/ RankCohorts
  \/ RenderJson
  \/ RenderText

Spec == Init /\ [][Next]_vars

(* Runs with the default limit, threshold and cohort filter over files of *)
(* up to MaxLines records drawn from ScoreLines.                           *)
InitScores ==
  /\ limit = DEFAULT_LIMIT /\ min_risk = 0 /\ cohort_filter = NoCohortFilter
  /\ export_path \in BOOLEAN /\ json \in BOOLEAN
  /\ Started

NextScores ==
  \/ ReadLine(ScoreLines, MaxLines)
  \/ NoRecords
  \/ Rank
  \/ Export
  \/ Aggregate
  \/ RankCohorts
  \/ RenderJson
  \/ RenderText

SpecScores == InitScores /\ [][NextScores]_vars

(* Runs with the default options over files of up to MaxFocusLines records *)
(* of four cohorts.                                                        *)
InitFocus ==
  /\ limit = DEFAULT_LIMIT /\ min_risk = 0 /\ cohort_filter = NoCohortFilter
  /\ export_path = FALSE /\ json \in BOOLEAN
  /\ Started

NextFocus ==
  \/ ReadLine(FocusLines, MaxFocusLines)
  \/ NoRecords
  \/ Rank
  \/ Export
  \/ Aggregate
  \/ RankCohorts
  \/ RenderJson
  \/ RenderText

SpecFocus == InitFocus /\ [][NextFocus]_vars

-----------------------------------------------------------------------------
(* Vocabulary of the properties *)

Finished == pc = "done" /\ exit_code = 0
Ranked == pc \in {"export", "aggregate", "render"} \/ Finished
Folding == pc \in {"aggregate", "render"} \/ Finished

Max(a, b) == IF a > b THEN a ELSE b
Min(a, b) == IF a < b THEN a ELSE b
FirstN(seq, n) == SubSeq(seq, 1, Min(Max(n, 0), Len(seq)))

AtOrAbove(arr, threshold) ==
  LET Meets(s) == s.risk_score >= threshold IN SelectSeq(arr, Meets)

Range(seq) == { seq[k] : k \in 1..Len(seq) }

Permutations(seq) ==
  { Apply(seq, o) : o \in { f \in [1..Len(seq) -> 1..Len(seq)] :
                             \A a, b \in 1..Len(seq) : f[a] = f[b] => a = b } }

\* seq[i] is placed before seq[j] by a descending order that keeps ties in
\* their order in seq; Greater holds the pairs <<i, j>> with key i > key j
PlacedBefore(Greater, i, j) ==
  \/ <<i, j>> \in Greater
  \/ <<i, j>> \notin Greater /\ <<j, i>> \notin Greater /\ i < j

\* the positions 1..n in descending order of key, ties in ascending position
StableOrder(n, Greater) ==
  [ r \in 1..n |->
      CHOOSE i \in 1..n :
        Cardinality({ j \in 1..n : j # i /\ PlacedBefore(Greater, j, i) }) = r - 1 ]

-----------------------------------------------------------------------------
(* C1: every risk score the run holds is between 0 and 100: in the loaded  *)
(* list before and after ranking, in the export and in the action queue,   *)
(* in every state, also for records with negative or out-of-range signals. *)
C1_RiskScoreBounded ==
  \A arr \in {scholars, loaded, exported, queue} :
    \A k \in 1..Len(arr) : 0 <= arr[k].risk_score /\ arr[k].risk_score <= SCORE_MAX

\* a finished run with export over a record whose raw sum is negative and one
\* whose raw sum exceeds 100
C1_Witness ==
  /\ Finished /\ export_path
  /\ Len(exported) = Len(scholars) /\ Len(queue) = Len(scholars)
  /\ \E k \in 1..Len(scholars) : raw_risk(scholars[k]) < 0
  /\ \E k \in 1..Len(scholars) : raw_risk(scholars[k]) > SCORE_MAX

-----------------------------------------------------------------------------
FoldedInto(name) == { j \in 1..idx : scholars[j].cohort = name }

(* C2: after each record folded, every cohort summary has                  *)
(* high + medium + low = total, total is the number of folded records of   *)
(* that cohort name, high counts those with risk >= 75, medium those with  *)
(* 50 <= risk < 75 and low those with risk < 50; names are unique and      *)
(* every folded record has its summary.                                    *)
C2_CohortCounts ==
  Folding =>
    /\ \A j \in 1..idx : \E k \in 1..Len(cohorts) : cohorts[k].name = scholars[j].cohort
    /\ \A k, m \in 1..Len(cohorts) : cohorts[k].name = cohorts[m].name => k = m
    /\ \A k \in 1..Len(cohorts) :
         LET cs == cohorts[k]
             of == FoldedInto(cs.name)
         IN  /\ cs.high + cs.medium + cs.low = cs.total
             /\ cs.total = Cardinality(of)
             /\ cs.high = Cardinality({ j \in of : scholars[j].risk_score >= TIER_HIGH })
             /\ cs.medium = Cardinality({ j \in of :
                                /\ scholars[j].risk_score >= TIER_MEDIUM
                                /\ scholars[j].risk_score < TIER_HIGH })
             /\ cs.low = Cardinality({ j \in of : scholars[j].risk_score < TIER_MEDIUM })

\* in the middle of the loop: a record of exactly 75.0 and one of exactly 50.0
\* of one cohort are folded, a third record is not yet
C2_Witness ==
  /\ pc = "aggregate" /\ idx = 2 /\ Len(scholars) = 3
  /\ scholars[1].risk_score = TIER_HIGH /\ scholars[2].risk_score = TIER_MEDIUM
  /\ Len(cohorts) = 1 /\ cohorts[1].high = 1 /\ cohorts[1].medium = 1

-----------------------------------------------------------------------------
PositionIn(arr, s) == CHOOSE k \in 1..Len(arr) : arr[k] = s

(* C3: after ranking the scholar sequence is a permutation of the loaded   *)
(* scholars in non-increasing order of risk_score, and scholars of equal   *)
(* risk_score are in the order they were loaded in.                        *)
C3_RankingStable ==
  Ranked =>
    /\ Len(scholars) = Len(loaded) /\ Range(scholars) = Range(loaded)
    /\ \A i, j \in 1..Len(scholars) :
         i < j =>
           /\ scholars[i].risk_score >= scholars[j].risk_score
           /\ scholars[i].risk_score = scholars[j].risk_score
                => PositionIn(loaded, scholars[i]) < PositionIn(loaded, scholars[j])

-----------------------------------------------------------------------------
MeanGreater(cs) ==
  { p \in (1..Len(cs)) \X (1..Len(cs)) :
      cs[p[1]].avg_risk * cs[p[2]].total > cs[p[2]].avg_risk * cs[p[1]].total }

(* C4: the cohort focus printed is the first min(3, number of cohorts)     *)
(* summaries of the cohorts ordered by mean risk descending with cohorts   *)
(* of equal mean in creation order.                                        *)
C4_FocusStable ==
  Finished =>
    focus_out = FirstN(Apply(cohorts, StableOrder(Len(cohorts), MeanGreater(cohorts))),
                       FOCUS_SHOWN)

-----------------------------------------------------------------------------
Qualifying(s) ==
  LET Material(d) == d.value > DRIVER_MIN IN SelectSeq(driver_terms(s), Material)

ValueGreater(ds) ==
  { p \in (1..Len(ds)) \X (1..Len(ds)) : ds[p[1]].value > ds[p[2]].value }

(* C5: the drivers reported are the first min(3, k) of the k qualifying    *)
(* terms ordered by descending magnitude with terms of equal magnitude in  *)
(* declaration order.                                                      *)
C5_DriversStable ==
  (pc = "explained" /\ ~driver_text.stable) =>
    LET q == Qualifying(rec) IN
      driver_text.chunks =
        FirstN(Apply(q, StableOrder(Len(q), ValueGreater(q))), DRIVER_SHOWN)

-----------------------------------------------------------------------------
(* C6 as stated: with an export file, the scholars exported are the same   *)
(* sequence as the scholars of the action queue.                           *)
C6_ExportEqualsQueue ==
  (Finished /\ export_path) => exported = queue

(* C6 amended: the export holds, in rank order, every scholar with         *)
(* risk_score >= min_risk and no limit applies to it; the action queue is  *)
(* the first min(max(limit, 0), k) entries of the export.                  *)
C6_QueueIsPrefixOfExport ==
  (Finished /\ export_path) =>
    /\ exported = AtOrAbove(scholars, min_risk)
    /\ queue = FirstN(exported, limit)

\* a text run with limit 1: three ranked, one below the threshold, two
\* exported, one queued
C6_Witness ==
  /\ Finished /\ export_path /\ ~json /\ limit = 1 /\ min_risk = TIER_HIGH
  /\ Len(scholars) = 3 /\ Len(exported) = 2 /\ Len(queue) = 1

-----------------------------------------------------------------------------
NoRecordsOutcome == message = NoRecordsMessage /\ exit_code = 1

FilterMatchedNone ==
  \/ cohort_filter # NoCohortFilter /\ Len(scholars) = 0
  \/ \A k \in 1..Len(scholars) : scholars[k].risk_score < min_risk

(* C7: when the file holds a well-formed record and the active filter      *)
(* (-cohort or -min-risk) matches none, the outcome reported is not the    *)
(* "no records" outcome of a file without well-formed records.             *)
C7_FilterMissDistinct ==
  (pc = "done" /\ wellformed >= 1 /\ FilterMatchedNone) => ~NoRecordsOutcome

-----------------------------------------------------------------------------
(* C8: format_drivers reports no term of magnitude <= 0.1, each entry it   *)
(* reports is one of the seven terms of the record, and it writes "stable" *)
(* exactly when all seven terms are <= 0.1.                                *)
C8_DriversMaterial ==
  pc = "explained" =>
    /\ \A k \in 1..Len(driver_text.chunks) :
         /\ driver_text.chunks[k].value > DRIVER_MIN
         /\ driver_text.chunks[k] \in Range(driver_terms(rec))
    /\ driver_text.stable <=>
         \A k \in 1..7 : driver_terms(rec)[k].value <= DRIVER_MIN
    /\ driver_text.stable => driver_text.chunks = <<>>
    /\ ~driver_text.stable => driver_text.chunks # <<>>

\* "stable" for a record with a negative term and a positive term below 0.1
C8_Witness ==
  /\ pc = "explained" /\ driver_text.stable
  /\ rec.open_flags < 0
  /\ rec.days_inactive > 0

-----------------------------------------------------------------------------
RECURSIVE fold_all(_, _)
fold_all(agg, arr) ==
  IF arr = <<>> THEN agg ELSE fold_all(fold_scholar(agg, Head(arr)), Tail(arr))

Unfolded == [total_risk |-> 0, tiers |-> [high |-> 0, medium |-> 0, low |-> 0],
             cohorts |-> <<>>]

\* the numeric results of an aggregation, without the order of the cohorts
Numbers(agg) ==
  [total_risk |-> agg.total_risk, tiers |-> agg.tiers, cohorts |-> Range(agg.cohorts)]

(* C9: when the aggregation loop has ended, folding the same records in    *)
(* any other order gives every cohort the same total, tier counts and risk *)
(* sum, and the same global tier counts and global risk sum.               *)
C9_OrderIndependent ==
  pc = "render" =>
    \A p \in Permutations(loaded) :
      Numbers(fold_all(Unfolded, p)) =
        Numbers([total_risk |-> total_risk, tiers |-> tiers, cohorts |-> cohorts])

\* three records of two cohorts, ranked into another order than loaded, the
\* first cohort created not being the cohort of the first record loaded
C9_Witness ==
  /\ pc = "render" /\ Len(loaded) = 3 /\ scholars # loaded
  /\ Len(cohorts) = 2 /\ cohorts[1].name # loaded[1].cohort
  /\ cohorts[2].total = 2

-----------------------------------------------------------------------------
(* C10: in text mode and in JSON mode the action queue is the first        *)
(* min(max(limit, 0), k) scholars, in rank order, of the k scholars with   *)
(* risk_score >= min_risk; no scholar below min_risk is listed and the     *)
(* queue is empty when limit <= 0.                                         *)
C10_ActionQueue ==
  Finished =>
    /\ queue = FirstN(AtOrAbove(scholars, min_risk), limit)
    /\ \A k \in 1..Len(queue) : queue[k].risk_score >= min_risk
    /\ limit <= 0 => queue = <<>>

\* a JSON run with limit 1: three ranked, two at or above the threshold, one
\* queued
C10_Witness ==
  /\ Finished /\ json /\ limit = 1 /\ min_risk = TIER_HIGH
  /\ Len(scholars) = 3 /\ Len(AtOrAbove(scholars, min_risk)) = 2
  /\ Len(queue) = 1 /\ queue[1] = scholars[1]

=============================================================================
